---- MODULE Spec2Model ----
(***************************************************************************)
(* Yad2-Haifa-Monitor: the snapshot / diff / notify pipeline.              *)
(*                                                                         *)
(* The model follows src/yad2_database.py (the SQLite store),              *)
(* src/smart_yad2_sampler.py (fetch_and_store_properties),                 *)
(* src/smart_yad2_main.py (perform_smart_check) and                        *)
(* src/yad2_notification_manager.py (the three digests).                   *)
(*                                                                         *)
(* The clock counts calendar days.  The Python side writes                 *)
(* datetime.now().isoformat() ("2026-11-01T10:00:00"); the SQL side        *)
(* compares it, as TEXT, with datetime('now', ...) ("2026-11-01 10:00:00"),*)
(* so the date alone decides every window test of the store.  The process  *)
(* clock is taken to be UTC, as SQLite's 'now' is.                         *)
(***************************************************************************)
EXTENDS Integers, Sequences, FiniteSets, TLC

\* ------------------------------------------------------------------ bounds
MaxDay == 2
MaxRuns == 3
MaxBatch == 2
MaxPrice == 2

\* ------------------------------------------------------- program constants
\* remove_sold_properties(hours=24), as fetch_and_store_properties calls it
SoldHours == 24
HoursPerDay == 24
\* send_removed_properties_notification: "len(removed_properties) < 5"
RemovedThreshold == 5
\* cleanup_old_data: monitoring_config.get('cleanup_old_properties_days', 30)
CleanupDefaultDays == 30
\* run_monitoring_cycle: self.db.cleanup_old_properties(days=14)
AdvancedCleanupDays == 14

\* ------------------------------------------------------------- value sets
Ids == {"A", "B"}
\* a formatted property whose token is '' or None has a falsy id
NoId == ""
\* property_data.get('price', None): a listing without a price
NoPrice == -1
Prices == {NoPrice} \cup (0 .. MaxPrice)

\* Python truthiness of a price: None and 0 are falsy
Truthy(p) == p # NoPrice /\ p # 0

\* what format_property_for_database hands to save_properties
Props == [id : Ids, price : Prices] \cup {[id |-> NoId, price |-> NoPrice]}

\* the lists save_properties may be handed
Batches == UNION {[1 .. n -> Props] : n \in 0 .. MaxBatch}

Range(s) == {s[i] : i \in 1 .. Len(s)}

\* ------------------------------------------------------------------ clock
\* TEXT comparison  isoformat(a) > datetime('now', '-d day')  at clock t:
\* the first ten characters are the dates; on equal dates the eleventh is
\* 'T' on the left and ' ' on the right, and 'T' > ' '.
IsoAfterSql(a, t, d) == a >= t - d

\* TEXT comparison  isoformat(a) < datetime('now', '-d days')  at clock t
IsoBeforeSql(a, t, d) == a < t - d

\* ------------------------------------------------------------------ state
VARIABLES
    properties,       \* table properties: id -> row
    monitoring_runs,  \* table monitoring_runs, in insertion order
    now,              \* the clock: today's date
    pc,               \* where perform_smart_check stands
    stats,            \* the stats fetch_and_store_properties returned
    new_properties,   \* the rows get_new_properties_for_notification returned
    events,           \* what the current call has done so far, in order
    requests,         \* HTTP requests issued by the current cycle
    email_enabled,    \* config.is_email_enabled()
    email_ok,         \* results['email'] of the new-listings digest
    result,           \* what the last finished call returned
    before,           \* table properties when the current call began
    runs_before,      \* table monitoring_runs when the current call began
    outcome,          \* how the fetch of the current cycle ended
    batch,            \* the formatted properties handed to save_properties
    marked_ids,       \* the identities handed to mark_properties_as_notified
    first_stored,     \* first_seen written when an identity was first stored
    raw_page,         \* the raw listings of the page fetched last
    raw_before,       \* the raw listings of the page fetched before it
    mode,             \* the run mode the process was started in
    running,          \* SmartYad2Monitor.running
    scheduled,        \* a next check is scheduled
    signalled,        \* SIGINT or SIGTERM was delivered
    exit_code,        \* the exit code of the process
    credentials,      \* sender_email and sender_password are configured
    smtp,             \* what the SMTP session of each recipient does
    attempts,         \* the recipients send_email tried, in order
    price_digest,     \* the price changes the price-drop digest was built from
    raising,          \* the store calls that raise during the current fetch
    failed_at,        \* listings save_properties wrote before it raised
    deleted,          \* the counts the sweeps run in succession returned
    reports,          \* fetches in a row that reported an absent id removed
    notified          \* (id, price) marked notified, no other price seen since

vars == <<properties, monitoring_runs, now, pc, stats, new_properties, events,
          requests, email_enabled, email_ok, result, before, runs_before,
          outcome, batch, notified, marked_ids, first_stored, raw_page,
          raw_before, mode, running, scheduled, signalled, exit_code,
          credentials, smtp, attempts,
          price_digest,
          raising, failed_at,
          deleted,
          reports>>

NoStats == [new |-> 0, updated |-> 0, total |-> 0,
            price_changes |-> <<>>, removed_properties |-> {}]

\* ------------------------------------------------ the store: yad2_database
\* columns address, rooms, size_sqm, floor, property_type, condition_text,
\* url, image_url and raw_data are written exactly where price is written
\* and are not modelled apart from it
Row(price, first, last, flag) ==
    [price |-> price, first_seen |-> first, last_seen |-> last,
     is_notified |-> flag]

\* current_property_ids: the truthy ids of the props
CurrentPropertyIds(props) ==
    {props[i].id : i \in {j \in 1 .. Len(props) : props[j].id # NoId}}

\* SELECT id, address, price FROM properties
\* WHERE last_seen > datetime("now", "-1 day")
ActiveProperties(tbl, t) ==
    {id \in DOMAIN tbl : IsoAfterSql(tbl[id].last_seen, t, 1)}

\* (the report without the test "if prop_id not in current_property_ids")
RemovedIds_AllActive(tbl, props, t) == ActiveProperties(tbl, t)

\* the rows save_properties reports as removed: seen lately, not in the props
RemovedIds(tbl, props, t) ==
    {id \in ActiveProperties(tbl, t) : id \notin CurrentPropertyIds(props)}

\* UPDATE properties SET last_seen = ? WHERE id = ?   for each removed row
TouchRemoved(tbl, props, t) ==
    [id \in DOMAIN tbl |->
        IF id \in RemovedIds(tbl, props, t)
        THEN [tbl[id] EXCEPT !.last_seen = t]
        ELSE tbl[id]]

RemovedRecords(tbl, ids) == {[id |-> id, price |-> tbl[id].price] : id \in ids}

\* (the test without "old_price and")
PriceChanged_AnyOld(old_price, new_price) ==
    Truthy(new_price) /\ old_price # new_price

\* if old_price and new_price and old_price != new_price
PriceChanged(old_price, new_price) ==
    Truthy(old_price) /\ Truthy(new_price) /\ old_price # new_price

\* (the record with old_price and new_price exchanged)
PriceChange_Swapped(id, old_price, new_price) ==
    [id |-> id, old_price |-> new_price, new_price |-> old_price,
     price_diff |-> old_price - new_price]

\* price_change = {'id': ..., 'old_price': ..., 'new_price': ..., 'price_diff': ...}
PriceChange(id, old_price, new_price) ==
    [id |-> id, old_price |-> old_price, new_price |-> new_price,
     price_diff |-> new_price - old_price]

\* UPDATE properties SET price=?, ..., last_seen=?, raw_data=? WHERE id=?
UpdateRow(row, prop, t) ==
    [row EXCEPT !.price = prop.price, !.last_seen = t]

\* (the insertion with is_notified set)
InsertRow_Notified(prop, t) == Row(prop.price, t, t, TRUE)

\* INSERT INTO properties (id, price, ..., first_seen, last_seen, raw_data);
\* is_notified takes its column default, FALSE
InsertRow(prop, t) == Row(prop.price, t, t, FALSE)

\* one pass of "for prop in properties"
UpsertProperty(acc, prop, t) ==
    IF prop.id = NoId THEN acc
    ELSE IF prop.id \in DOMAIN acc.tbl
    THEN [tbl |-> [acc.tbl EXCEPT ![prop.id] = UpdateRow(@, prop, t)],
          new |-> acc.new,
          updated |-> acc.updated + 1,
          price_changes |->
              IF PriceChanged(acc.tbl[prop.id].price, prop.price)
              THEN Append(acc.price_changes,
                          PriceChange(prop.id, acc.tbl[prop.id].price, prop.price))
              ELSE acc.price_changes]
    ELSE [tbl |-> [id \in DOMAIN acc.tbl \cup {prop.id} |->
                      IF id = prop.id THEN InsertRow(prop, t) ELSE acc.tbl[id]],
          new |-> acc.new + 1,
          updated |-> acc.updated,
          price_changes |-> acc.price_changes]

RECURSIVE UpsertAll(_, _, _, _)
UpsertAll(acc, props, i, t) ==
    IF i > Len(props) THEN acc
    ELSE UpsertAll(UpsertProperty(acc, props[i], t), props, i + 1, t)

\* Yad2Database.save_properties: the table afterwards and the stats returned
save_properties(tbl, props, t) ==
    LET removed == RemovedIds(tbl, props, t)
        acc == UpsertAll([tbl |-> TouchRemoved(tbl, props, t), new |-> 0,
                          updated |-> 0, price_changes |-> <<>>], props, 1, t)
    IN  [tbl |-> acc.tbl,
         stats |-> [new |-> acc.new, updated |-> acc.updated,
                    total |-> Len(props),
                    price_changes |-> acc.price_changes,
                    removed_properties |-> RemovedRecords(tbl, removed)]]

\* (the query without its WHERE clause)
Unnotified_NoWhere(tbl) == DOMAIN tbl

\* WHERE is_notified = FALSE
Unnotified(tbl) == {id \in DOMAIN tbl : ~tbl[id].is_notified}

\* the orders in which a scan may meet the rows of a set
Scans(S) ==
    {s \in [1 .. Cardinality(S) -> S] :
        \A i, j \in 1 .. Cardinality(S) : i # j => s[i] # s[j]}

\* ORDER BY first_seen DESC: the sorter keeps the scan order among equals
ComesBefore(a, b) == a.first_seen >= b.first_seen

RECURSIVE InsertSorted(_, _)
InsertSorted(sorted, r) ==
    IF sorted = <<>> THEN <<r>>
    ELSE IF ComesBefore(Head(sorted), r)
         THEN <<Head(sorted)>> \o InsertSorted(Tail(sorted), r)
         ELSE <<r>> \o sorted

RECURSIVE OrderByFirstSeen(_, _, _)
OrderByFirstSeen(sorted, rows, i) ==
    IF i > Len(rows) THEN sorted
    ELSE OrderByFirstSeen(InsertSorted(sorted, rows[i]), rows, i + 1)

NewRow(tbl, id) ==
    [id |-> id, price |-> tbl[id].price, first_seen |-> tbl[id].first_seen]

\* Yad2Database.get_new_properties_for_notification, the scan meeting the
\* unnotified rows in the order `scan`
get_new_properties_for_notification(tbl, scan) ==
    OrderByFirstSeen(<<>>, [i \in 1 .. Len(scan) |-> NewRow(tbl, scan[i])], 1)

\* UPDATE properties SET is_notified = TRUE WHERE id = ?
SetNotified(row) == [row EXCEPT !.is_notified = TRUE]

\* (the UPDATE without its WHERE clause)
mark_properties_as_notified_All(tbl, property_ids) ==
    [id \in DOMAIN tbl |-> SetNotified(tbl[id])]

\* Yad2Database.mark_properties_as_notified
mark_properties_as_notified(tbl, property_ids) ==
    [id \in DOMAIN tbl |->
        IF id \in Range(property_ids) THEN SetNotified(tbl[id]) ELSE tbl[id]]

\* Yad2Database.log_monitoring_run
\* (the columns properties_found, new_properties, error_message and
\* api_response_hash are statistics no operation reads back)
log_monitoring_run(runs, success) == Append(runs, [success |-> success])

\* WHERE last_seen < datetime('now', '-{days} days')
OlderThanDays(tbl, t, days) ==
    {id \in DOMAIN tbl : IsoBeforeSql(tbl[id].last_seen, t, days)}

\* (a sweep that deletes one stale row per call)
cleanup_old_properties_OneRow(tbl, t, days) ==
    LET old == OlderThanDays(tbl, t, days)
        gone == IF old = {} THEN {}
                ELSE {CHOOSE id \in old : TRUE}
    IN  [tbl |-> [id \in DOMAIN tbl \ gone |-> tbl[id]],
         deleted |-> Cardinality(gone)]

\* Yad2Database.cleanup_old_properties: DELETE FROM properties WHERE ...
cleanup_old_properties(tbl, t, days) ==
    LET gone == OlderThanDays(tbl, t, days)
    IN  [tbl |-> [id \in DOMAIN tbl \ gone |-> tbl[id]],
         deleted |-> Cardinality(gone)]

\* WHERE last_seen < datetime('now', '-{hours} hours')
OlderThanHours(tbl, t, hours) ==
    {id \in DOMAIN tbl :
        IsoBeforeSql(tbl[id].last_seen, t, hours \div HoursPerDay)}

\* Yad2Database.remove_sold_properties: SELECT, then DELETE, the same rows
remove_sold_properties(tbl, t, hours) ==
    LET gone == OlderThanHours(tbl, t, hours)
    IN  [tbl |-> [id \in DOMAIN tbl \ gone |-> tbl[id]],
         removed |-> RemovedRecords(tbl, gone)]

\* ------------------------------------------- inputs of a monitoring cycle
\* the ways fetch_and_store_properties ends without a batch
FetchFailures ==
    {"no_url", "timeout", "network", "http403", "http429", "http_error",
     "bad_json", "bad_shape"}

\* a listing page: which identities it shows, and at which price
Absent == -2
\* (a listing shown carries a positive price or none at all)
ListedPrices == {NoPrice} \cup (1 .. MaxPrice)
Feeds == [Ids -> ListedPrices \cup {Absent}]
IdOrder == <<"A", "B">>

\* formatted_properties of a page: one entry per listing shown
FormatFeed(feed) ==
    SelectSeq([i \in 1 .. Len(IdOrder) |->
                  [id |-> IdOrder[i], price |-> feed[IdOrder[i]]]],
              LAMBDA p : p.price # Absent)

EmptyTable == [id \in {} |-> Row(0, 0, 0, FALSE)]

Ids_of(rows) == {rows[i].id : i \in 1 .. Len(rows)}
IdSeq(rows) == [i \in 1 .. Len(rows) |-> rows[i].id]

\* bookkeeping for the duplicate-alert question: the marks that still stand
\* after a batch, a mark standing until the identity shows another price
StillNotified(marks, props) ==
    {m \in marks :
        \A i \in 1 .. Len(props) : props[i].id = m.id => props[i].price = m.price}

\* the marks a call of mark_properties_notified makes
Marks(tbl, rows) ==
    {[id |-> id, price |-> tbl[id].price] : id \in Ids_of(rows) \cap DOMAIN tbl}

\* ---------------------------------------------- raw listings and their format
\* the listing carries no 'token' key
NoToken == "missing"
Tokens == Ids \cup {NoToken}
TokenOrder == IdOrder \o <<NoToken>>

\* the 'address' of a raw listing: the key is missing, it is null (or any
\* value that is no dict), or it is a dict with a street, neighborhood or city
Addresses == {"missing", "null", "text"}

\* a raw listing under its token: its price (NoPrice when the key is
\* missing) and its address; NotListed when the page does not show it
RawListings == [price : ListedPrices, address : Addresses]
NotListed == [price |-> Absent, address |-> "missing"]
RawPages == [Tokens -> RawListings \cup {NotListed}]
NoPage == [token \in Tokens |-> NotListed]

Listed(page) == {token \in Tokens : page[token] # NotListed}

\* SmartYad2APISampler.format_property_for_database: 'id' is the token or
\* 'N/A'; an address that is no dict raises inside the try, and the except
\* branch returns the token or 'unknown' with no other field
format_property_for_database(token, property_data) ==
    IF property_data.address = "null"
    THEN [id |-> IF token = NoToken THEN "unknown" ELSE token,
          price |-> NoPrice]
    ELSE [id |-> IF token = NoToken THEN "N/A" ELSE token,
          price |-> property_data.price]

\* formatted_properties: the formatted listings whose id is not 'N/A'
FormatRaw(page) ==
    LET shown == SelectSeq(TokenOrder, LAMBDA token : token \in Listed(page))
        formatted == [i \in 1 .. Len(shown) |->
                         format_property_for_database(shown[i], page[shown[i]])]
    IN  SelectSeq(formatted, LAMBDA f : f.id # "N/A")

\* the pages that differ from a page in at most one field other than the
\* token of at most one listing
Reobserved(page) ==
    {again \in RawPages :
        /\ Listed(again) = Listed(page)
        /\ \A t1, t2 \in Tokens :
               (again[t1] # page[t1] /\ again[t2] # page[t2]) => t1 = t2
        /\ \A token \in Tokens :
               \/ again[token].price = page[token].price
               \/ again[token].address = page[token].address}

\* -------------------------------------------------------- the run modes
\* smart_yad2_main.py --once, smart_yad2_main.py (continuous),
\* scheduler_runner.py, github_advanced_monitor.py
SmartModes == {"once", "continuous"}
AdvancedModes == {"scheduler", "github"}
Modes == SmartModes \cup AdvancedModes

\* the process has not exited
NoExit == -1

Init ==
    /\ properties = EmptyTable
    /\ monitoring_runs = <<>>
    /\ now = 0
    /\ pc = "idle"
    /\ stats = NoStats
    /\ new_properties = <<>>
    /\ events = <<>>
    /\ requests = 0
    /\ email_enabled \in BOOLEAN
    /\ email_ok = FALSE
    /\ result = "none"
    /\ before = EmptyTable
    /\ runs_before = <<>>
    /\ outcome = "none"
    /\ batch = <<>>
    /\ notified = {}
    /\ reports = [id \in Ids |-> 0]
    /\ deleted = <<>>
    /\ raising = {}
    /\ failed_at = 0
    /\ price_digest = <<>>
    /\ credentials = FALSE
    /\ smtp = <<>>
    /\ attempts = <<>>
    /\ mode = "none"
    /\ running = FALSE
    /\ scheduled = FALSE
    /\ signalled = FALSE
    /\ exit_code = NoExit
    /\ raw_page = NoPage
    /\ raw_before = NoPage
    /\ marked_ids = <<>>
    /\ first_stored = <<>>

\* ------------------------------ SmartYad2APISampler.fetch_and_store_properties
\* the request is answered 403 or 429, raises, the body is no JSON, or the
\* document holds no listing: one failed run is logged, (False, ...) returned
\* and perform_smart_check returns False
FetchFails(failure) ==
    /\ outcome' = failure
    /\ properties' = properties
    /\ monitoring_runs' = log_monitoring_run(monitoring_runs, FALSE)
    /\ requests' = IF failure = "no_url" THEN 0 ELSE 1
    /\ events' = <<"log_monitoring_run">>
    /\ stats' = NoStats
    /\ result' = "False"
    /\ pc' = "return"
    /\ batch' = <<>>
    /\ notified' = notified

\* the stats returned on success: remove_sold_properties' rows replace the
\* rows save_properties reported when there are any
MergeRemoved(saved_stats, sold) ==
    IF sold # {} THEN [saved_stats EXCEPT !.removed_properties = sold]
    ELSE saved_stats

\* the document holds listings: save, log the run, drop the sold rows
FetchStores(formatted_properties) ==
    LET saved == save_properties(properties, formatted_properties, now)
        sold == remove_sold_properties(saved.tbl, now, SoldHours)
    IN  /\ outcome' = "ok"
        /\ properties' = sold.tbl
        /\ monitoring_runs' =
               log_monitoring_run(monitoring_runs, TRUE)
        /\ requests' = 1
        /\ events' = <<"save_properties", "log_monitoring_run",
                       "remove_sold_properties">>
        /\ stats' = MergeRemoved(saved.stats, sold.removed)
        /\ result' = "running"
        /\ pc' = "get_new"
        /\ batch' = formatted_properties
        /\ notified' = StillNotified(notified, formatted_properties)

FetchAndStore ==
    /\ pc = "idle"
    /\ Len(monitoring_runs) < MaxRuns
    /\ before' = properties
    /\ runs_before' = monitoring_runs
    /\ new_properties' = <<>>
    /\ email_ok' = FALSE
    /\ UNCHANGED <<now, email_enabled, reports, deleted, raising, failed_at,
                   price_digest, credentials, smtp, attempts, mode, running,
                   scheduled, signalled, exit_code, raw_page, raw_before,
                   marked_ids, first_stored>>
    /\ \/ \E failure \in FetchFailures : FetchFails(failure)
       \/ \E feed \in Feeds : FetchStores(FormatFeed(feed))

\* --------------------------------------- SmartYad2Monitor.perform_smart_check
\* (marking without sending the digest first)
AfterGetNew_MarkFirst(rows) == "mark"

\* (one mail for every property of the change set)
Digest_PerProperty(call, count) ==
    <<call>> \o [i \in 1 .. count |-> "send_email"]

\* a notifier call that mails: whatever the number of properties in its
\* change set, it builds one subject and one body and calls send_email once
Digest(call, count) == <<call, "send_email">>

\* "if new_properties:" sends and marks, else goes on to the price changes
AfterGetNew(rows) == IF rows # <<>> THEN "send_new" ELSE "price"

\* new_properties = self.api_sampler.get_new_properties_for_notification()
GetNew ==
    /\ pc = "get_new"
    /\ \E scan \in Scans(Unnotified(properties)) :
           new_properties' = get_new_properties_for_notification(properties, scan)
    /\ events' = Append(events, "get_new_properties_for_notification")
    /\ pc' = AfterGetNew(new_properties')
    /\ UNCHANGED <<properties, monitoring_runs, now, stats, requests,
                   email_enabled, reports, deleted, raising, failed_at,
                   price_digest, credentials, smtp, attempts, mode, running,
                   scheduled, signalled, exit_code, raw_page, raw_before,
                   marked_ids, first_stored, email_ok, result, before,
                   runs_before, outcome, batch, notified>>

\* format_property_html: f"{price:,}" raises TypeError on a price of None
FormatRaises(rows) == \E i \in 1 .. Len(rows) : rows[i].price = NoPrice

\* notification_results = send_yad2_notification(new_properties); an
\* exception ends perform_smart_check in its except clause, returning False
SendNew ==
    /\ pc = "send_new"
    /\ IF email_enabled /\ FormatRaises(new_properties)
       THEN /\ pc' = "return"
            /\ result' = "False"
            /\ email_ok' = FALSE
            /\ events' = Append(events, "send_yad2_notification")
       ELSE /\ pc' = "mark"
            /\ result' = result
            /\ IF email_enabled
               THEN /\ email_ok' \in BOOLEAN
                    /\ events' = events \o Digest("send_yad2_notification",
                                                  Len(new_properties))
               ELSE /\ email_ok' = FALSE
                    /\ events' = Append(events, "send_yad2_notification")
    /\ UNCHANGED <<properties, monitoring_runs, now, stats, new_properties,
                   requests, email_enabled, reports, deleted, raising,
                   failed_at, price_digest, credentials, smtp, attempts, mode,
                   running, scheduled, signalled, exit_code, raw_page,
                   raw_before, marked_ids, first_stored, before, runs_before,
                   outcome, batch, notified>>

\* self.api_sampler.mark_properties_notified(property_ids)
MarkNotified ==
    /\ pc = "mark"
    /\ properties' = mark_properties_as_notified(properties, IdSeq(new_properties))
    /\ notified' = notified \cup Marks(properties, new_properties)
    /\ events' = Append(events, "mark_properties_notified")
    /\ pc' = "price"
    /\ UNCHANGED <<monitoring_runs, now, stats, new_properties, requests,
                   email_enabled, reports, deleted, raising, failed_at,
                   price_digest, credentials, smtp, attempts, mode, running,
                   scheduled, signalled, exit_code, raw_page, raw_before,
                   marked_ids, first_stored, email_ok, result, before,
                   runs_before, outcome, batch>>

\* (the digest built from every change, the filter left out)
PriceDrops_All(price_changes) == price_changes

\* price_drops = [pc for pc in price_changes if pc.get('price_diff', 0) < 0]
PriceDrops(price_changes) == SelectSeq(price_changes, LAMBDA c : c.price_diff < 0)

\* send_price_change_notification mails one digest when there is a drop
PriceDigestSent(price_changes) ==
    PriceDrops(price_changes) # <<>> /\ email_enabled

SendPriceChange ==
    /\ pc = "price"
    /\ events' =
           IF stats.price_changes = <<>> THEN events
           ELSE IF PriceDigestSent(stats.price_changes)
                THEN events \o Digest("send_price_change_notification",
                                      Len(PriceDrops(stats.price_changes)))
                ELSE Append(events, "send_price_change_notification")
    /\ pc' = "removed"
    /\ price_digest' =
           IF PriceDigestSent(stats.price_changes)
           THEN PriceDrops(stats.price_changes) ELSE <<>>
    /\ UNCHANGED <<properties, monitoring_runs, now, stats, new_properties,
                   requests, email_enabled, reports, deleted, raising,
                   failed_at, credentials, smtp, attempts, mode, running,
                   scheduled, signalled, exit_code, raw_page, raw_before,
                   marked_ids, first_stored, email_ok, result, before,
                   runs_before, outcome, batch, notified>>

\* send_removed_properties_notification mails one digest for five rows or more
RemovedDigestSent(removed) ==
    Cardinality(removed) >= RemovedThreshold /\ email_enabled

\* _format_removed_properties_html: f"{price:,}" raises on a price of None
RemovedFormatRaises(removed) == \E r \in removed : r.price = NoPrice

SendRemoved ==
    /\ pc = "removed"
    /\ IF stats.removed_properties = {}
       THEN events' = events /\ result' = "True"
       ELSE IF RemovedDigestSent(stats.removed_properties)
            THEN IF RemovedFormatRaises(stats.removed_properties)
                 THEN /\ events' = Append(events, "send_removed_properties_notification")
                      /\ result' = "False"
                 ELSE /\ events' = events \o
                              Digest("send_removed_properties_notification",
                                     Cardinality(stats.removed_properties))
                      /\ result' = "True"
            ELSE /\ events' = Append(events, "send_removed_properties_notification")
                 /\ result' = "True"
    /\ pc' = "return"
    /\ UNCHANGED <<properties, monitoring_runs, now, stats, new_properties,
                   requests, email_enabled, reports, deleted, raising,
                   failed_at, price_digest, credentials, smtp, attempts, mode,
                   running, scheduled, signalled, exit_code, raw_page,
                   raw_before, marked_ids, first_stored, email_ok, before,
                   runs_before, outcome, batch, notified>>

\* perform_smart_check returns: its locals are gone
Return ==
    /\ pc = "return"
    /\ pc' = "idle"
    /\ stats' = NoStats
    /\ new_properties' = <<>>
    /\ events' = <<>>
    /\ requests' = 0
    /\ email_ok' = FALSE
    /\ result' = "none"
    /\ before' = EmptyTable
    /\ runs_before' = <<>>
    /\ outcome' = "none"
    /\ batch' = <<>>
    /\ marked_ids' = <<>>
    /\ price_digest' = <<>>
    /\ raising' = {}
    /\ failed_at' = 0
    /\ deleted' = <<>>
    /\ UNCHANGED <<properties, monitoring_runs, now, email_enabled, reports,
                   credentials, smtp, attempts, mode, running, scheduled,
                   signalled, exit_code, raw_page, raw_before, first_stored,
                   notified>>

\* ------------------------ SmartYad2Monitor._perform_check_and_reschedule
\* cleanup_days = monitoring_config.get('cleanup_old_properties_days', 30):
\* the retention an operator configures, or the default
ConfiguredCleanupDays == {1, CleanupDefaultDays}

\* "if random.random() < 0.05: cleaned = self.api_sampler.cleanup_old_data()"
CleanupOldData ==
    /\ pc = "idle"
    /\ \E days \in ConfiguredCleanupDays :
           properties' = cleanup_old_properties(properties, now, days).tbl
    /\ before' = properties
    /\ runs_before' = monitoring_runs
    /\ outcome' = "none"
    /\ events' = <<"cleanup_old_properties">>
    /\ result' = "cleaned"
    /\ pc' = "return"
    /\ UNCHANGED <<monitoring_runs, now, stats, new_properties, requests,
                   email_enabled, reports, deleted, raising, failed_at,
                   price_digest, credentials, smtp, attempts, mode, running,
                   scheduled, signalled, exit_code, raw_page, raw_before,
                   marked_ids, first_stored, email_ok, batch, notified>>

\* ---- AdvancedYad2Monitor.run_monitoring_cycle, GitHubYad2Monitor likewise
\* the ways fetch_properties_with_stealth / fetch_properties return []
AdvancedFetchFailures ==
    {"timeout", "network", "http_error", "captcha", "bad_json", "bad_shape"}

\* cleanup_old_properties(days=14), then the fetch; on an empty fetch the
\* cycle returns.  With listings the first add_or_update_property call
\* raises AttributeError, Yad2Database having no such method, and the cycle
\* re-raises it.
AdvancedCycle ==
    /\ pc = "idle"
    /\ properties' = cleanup_old_properties(properties, now, AdvancedCleanupDays).tbl
    /\ before' = properties
    /\ runs_before' = monitoring_runs
    /\ requests' = 1
    /\ events' = <<"cleanup_old_properties", "fetch_properties">>
    /\ \/ \E failure \in AdvancedFetchFailures :
              outcome' = failure /\ result' = "aborted"
       \/ outcome' = "ok" /\ result' = "raised"
    /\ pc' = "return"
    /\ UNCHANGED <<monitoring_runs, now, stats, new_properties, email_enabled,
                   reports, deleted, raising, failed_at, price_digest,
                   credentials, smtp, attempts, mode, running, scheduled,
                   signalled, exit_code, raw_page, raw_before, marked_ids,
                   first_stored, email_ok, batch, notified>>

\* the clock moves between calls
Tick ==
    /\ pc = "idle"
    /\ now < MaxDay
    /\ now' = now + 1
    /\ UNCHANGED <<properties, monitoring_runs, pc, stats, new_properties,
                   events, requests, email_enabled, reports, deleted, raising,
                   failed_at, price_digest, credentials, smtp, attempts, mode,
                   running, scheduled, signalled, exit_code, raw_page,
                   raw_before, marked_ids, first_stored, email_ok, result,
                   before, runs_before, outcome, batch, notified>>

Next ==
    \/ FetchAndStore
    \/ GetNew
    \/ SendNew
    \/ MarkNotified
    \/ SendPriceChange
    \/ SendRemoved
    \/ CleanupOldData
    \/ AdvancedCycle
    \/ Return
    \/ Tick

Spec == Init /\ [][Next]_vars

\* ----------------------------------- the store driven through save_properties
\* Yad2Database.save_properties on any list of formatted properties
SaveProperties ==
    /\ pc = "idle"
    /\ \E formatted_properties \in Batches :
           LET saved == save_properties(properties, formatted_properties, now)
           IN  /\ properties' = saved.tbl
               /\ stats' = saved.stats
               /\ batch' = formatted_properties
               /\ notified' = StillNotified(notified, formatted_properties)
    /\ before' = properties
    /\ runs_before' = monitoring_runs
    /\ outcome' = "none"
    /\ events' = <<"save_properties">>
    /\ pc' = "return"
    /\ UNCHANGED <<monitoring_runs, now, new_properties, requests,
                   email_enabled, reports, deleted, raising, failed_at,
                   price_digest, credentials, smtp, attempts, mode, running,
                   scheduled, signalled, exit_code, raw_page, raw_before,
                   marked_ids, first_stored, email_ok, result>>

\* (the clock plays no part in the counts and the price changes: the calls
\* follow one another within the day)
NextSave ==
    \/ SaveProperties
    \/ Return

SpecSave == Init /\ [][NextSave]_vars

\* ------------------------- the store driven through mark_properties_as_notified
\* the lists mark_properties_as_notified may be handed: stored identities,
\* identities the store does not hold, repetitions
IdLists == UNION {[1 .. n -> Ids] : n \in 0 .. MaxBatch}

\* Yad2Database.mark_properties_as_notified on any list of identities
MarkProperties ==
    /\ pc = "idle"
    /\ \E ids \in IdLists :
           /\ properties' = mark_properties_as_notified(properties, ids)
           /\ marked_ids' = ids
           /\ notified' = notified \cup
                  {[id |-> id, price |-> properties[id].price] :
                      id \in Range(ids) \cap DOMAIN properties}
    /\ before' = properties
    /\ runs_before' = monitoring_runs
    /\ outcome' = "none"
    /\ events' = <<"mark_properties_as_notified">>
    /\ pc' = "return"
    /\ UNCHANGED <<monitoring_runs, now, stats, new_properties, requests,
                   email_enabled, reports, deleted, raising, failed_at,
                   price_digest, credentials, smtp, attempts, mode, running,
                   scheduled, signalled, exit_code, raw_page, raw_before,
                   email_ok, result, batch, first_stored>>

NextMark ==
    \/ SaveProperties
    \/ MarkProperties
    \/ Return

SpecMark == Init /\ [][NextMark]_vars

\* ------------------------------- the store driven through the days of its use
\* bookkeeping for the first_seen question: the first_seen each identity
\* was given when it was first stored
FirstStored(firsts, tbl) ==
    [id \in DOMAIN firsts \cup DOMAIN tbl |->
        IF id \in DOMAIN firsts THEN firsts[id] ELSE tbl[id].first_seen]

\* Yad2Database.save_properties on the listings of a page
SaveListed ==
    /\ pc = "idle"
    /\ \E feed \in Feeds :
           LET saved == save_properties(properties, FormatFeed(feed), now)
           IN  /\ properties' = saved.tbl
               /\ stats' = saved.stats
               /\ batch' = FormatFeed(feed)
               /\ notified' = StillNotified(notified, FormatFeed(feed))
               /\ first_stored' = FirstStored(first_stored, saved.tbl)
    /\ before' = properties
    /\ runs_before' = monitoring_runs
    /\ outcome' = "none"
    /\ events' = <<"save_properties">>
    /\ pc' = "return"
    /\ UNCHANGED <<monitoring_runs, now, new_properties, requests,
                   email_enabled, reports, deleted, raising, failed_at,
                   price_digest, credentials, smtp, attempts, mode, running,
                   scheduled, signalled, exit_code, raw_page, raw_before,
                   email_ok, result, marked_ids>>

\* Yad2Database.remove_sold_properties(hours=24)
RemoveSold ==
    /\ pc = "idle"
    /\ LET sold == remove_sold_properties(properties, now, SoldHours)
       IN  /\ properties' = sold.tbl
           /\ stats' = [NoStats EXCEPT !.removed_properties = sold.removed]
    /\ before' = properties
    /\ runs_before' = monitoring_runs
    /\ outcome' = "none"
    /\ events' = <<"remove_sold_properties">>
    /\ pc' = "return"
    /\ UNCHANGED <<monitoring_runs, now, new_properties, requests,
                   email_enabled, reports, deleted, raising, failed_at,
                   price_digest, credentials, smtp, attempts, mode, running,
                   scheduled, signalled, exit_code, raw_page, raw_before,
                   email_ok, result, batch, notified, marked_ids,
                   first_stored>>

NextStore ==
    \/ SaveListed
    \/ RemoveSold
    \/ CleanupOldData
    \/ Return
    \/ Tick

SpecStore == Init /\ [][NextStore]_vars

\* ------------------------------------- a page of raw listings and its re-fetch
\* fetch_and_store_properties on a page: no listing at all is the failure
\* "No properties found in API response"
FetchPage(page) ==
    /\ raw_page' = page
    /\ raw_before' = raw_page
    /\ before' = properties
    /\ runs_before' = monitoring_runs
    /\ new_properties' = <<>>
    /\ email_ok' = FALSE
    /\ UNCHANGED <<now, email_enabled, reports, deleted, raising, failed_at,
                   price_digest, credentials, smtp, attempts, mode, running,
                   scheduled, signalled, exit_code, marked_ids, first_stored>>
    /\ IF Listed(page) = {} THEN FetchFails("bad_shape")
       ELSE FetchStores(FormatRaw(page))

\* the first cycle on any page
FetchRaw ==
    /\ pc = "idle"
    /\ monitoring_runs = <<>>
    /\ \E page \in RawPages : FetchPage(page)

\* the next cycle sees the page again, one listing changed in one field
FetchRawAgain ==
    /\ pc = "idle"
    /\ raw_page # NoPage
    /\ raw_before = NoPage
    /\ \E page \in Reobserved(raw_page) : FetchPage(page)

NextNormalize ==
    \/ FetchRaw
    \/ FetchRawAgain
    \/ GetNew
    \/ SendNew
    \/ MarkNotified
    \/ SendPriceChange
    \/ SendRemoved
    \/ Return

SpecNormalize == Init /\ [][NextNormalize]_vars

\* ------------------------------------------------- the process of a run mode
\* what comes before the first cycle.  Smart modes: initialize() returns
\* False and run_single_check / run_continuous_smart call sys.exit(1).
\* scheduler_runner: GMAIL_EMAIL or GMAIL_APP_PASSWORD is missing, sys.exit(1).
\* github_advanced_monitor: the constructor raises, main prints the
\* exception and returns.
StartFails(m) == IF m = "github" THEN 0 ELSE 1

Start ==
    /\ pc = "idle"
    /\ mode = "none"
    /\ \E m \in Modes, ok \in BOOLEAN :
           /\ mode' = m
           /\ IF ok THEN pc' = "idle" /\ exit_code' = exit_code
              ELSE pc' = "exited" /\ exit_code' = StartFails(m)
    /\ UNCHANGED <<properties, monitoring_runs, now, stats, new_properties,
                   events, requests, email_enabled, reports, deleted, raising,
                   failed_at, price_digest, credentials, smtp, attempts,
                   email_ok, result, before, runs_before, outcome, batch,
                   marked_ids, first_stored, raw_page, raw_before, notified,
                   running, scheduled, signalled>>

\* perform_smart_check is called
SmartCheck == mode \in SmartModes /\ FetchAndStore

\* save_properties raises inside fetch_and_store_properties: the
\* transaction is rolled back, "except Exception" sets the message, the
\* failed run is logged and (False, ...) is returned
SaveRaises ==
    /\ mode \in SmartModes
    /\ pc = "idle"
    /\ Len(monitoring_runs) < MaxRuns
    /\ before' = properties
    /\ runs_before' = monitoring_runs
    /\ new_properties' = <<>>
    /\ email_ok' = FALSE
    /\ FetchFails("store_error")
    /\ UNCHANGED <<now, email_enabled, reports, deleted, raising, failed_at,
                   price_digest, credentials, smtp, attempts, marked_ids,
                   first_stored, raw_page, raw_before, mode, running,
                   scheduled, signalled, exit_code>>

\* run_monitoring_cycle is called
AdvancedRun == mode \in AdvancedModes /\ AdvancedCycle

\* main of the single-cycle modes.  --once: sys.exit(0 if success else 1).
\* scheduler_runner: sys.exit(0) after run_monitoring_cycle returned,
\* sys.exit(1) when it raised.  github_advanced_monitor: the exception is
\* printed, main returns
ExitCode(m, r) ==
    CASE m = "once" -> IF r = "True" THEN 0 ELSE 1
      [] m = "scheduler" -> IF r = "raised" THEN 1 ELSE 0
      [] OTHER -> 0

ReturnSingle ==
    /\ pc = "return"
    /\ mode \in {"once"} \cup AdvancedModes
    /\ exit_code' = ExitCode(mode, result)
    /\ pc' = "exited"
    /\ UNCHANGED <<properties, monitoring_runs, now, stats, new_properties,
                   events, requests, email_enabled, reports, deleted, raising,
                   failed_at, price_digest, credentials, smtp, attempts,
                   email_ok, result, before, runs_before, outcome, batch,
                   marked_ids, first_stored, raw_page, raw_before, notified,
                   mode, running, scheduled, signalled>>

\* (a loop that gave up after a failed check)
AfterCheck_ExitOnFailure(r) == IF r = "False" THEN "exited" ELSE "wait"

\* run_continuous_smart and _perform_check_and_reschedule drop the value
\* perform_smart_check returns; the while loop is where they go on
AfterCheck(r) == "wait"

\* _schedule_next_check: schedule.clear() first, then the interval is drawn
\* and the job added; when get_next_check_interval or schedule.every raises,
\* "except Exception" logs the error and no job is left
schedule_next_check(raised) == ~raised

\* the check returned to run_continuous_smart (the initial check: the next
\* one is scheduled and "self.running = True") or to
\* _perform_check_and_reschedule (the next one is scheduled, and one time
\* in twenty cleanup_old_data runs)
ReturnContinuous ==
    /\ pc = "return"
    /\ mode = "continuous"
    /\ pc' = AfterCheck(result)
    /\ \E raised \in BOOLEAN : scheduled' = schedule_next_check(raised)
    /\ running' = IF scheduled THEN running ELSE TRUE
    /\ \E cleanup \in BOOLEAN, days \in ConfiguredCleanupDays :
           properties' = IF scheduled /\ cleanup
                         THEN cleanup_old_properties(properties, now, days).tbl
                         ELSE properties
    /\ stats' = NoStats
    /\ new_properties' = <<>>
    /\ events' = <<>>
    /\ requests' = 0
    /\ email_ok' = FALSE
    /\ result' = "none"
    /\ before' = EmptyTable
    /\ runs_before' = <<>>
    /\ outcome' = "none"
    /\ batch' = <<>>
    /\ marked_ids' = <<>>
    /\ price_digest' = <<>>
    /\ UNCHANGED <<monitoring_runs, now, email_enabled, reports, deleted,
                   raising, failed_at, credentials, smtp, attempts,
                   first_stored, raw_page, raw_before, notified, mode,
                   signalled, exit_code>>

\* "while self.running:" between two cycles: the loop goes on to
\* schedule.run_pending(), or ends and _shutdown runs
LoopTest ==
    /\ pc = "wait"
    /\ IF running THEN pc' = "pending" /\ exit_code' = exit_code
       ELSE pc' = "exited" /\ exit_code' = 0
    /\ UNCHANGED <<properties, monitoring_runs, now, stats, new_properties,
                   events, requests, email_enabled, reports, deleted, raising,
                   failed_at, price_digest, credentials, smtp, attempts,
                   email_ok, result, before, runs_before, outcome, batch,
                   marked_ids, first_stored, raw_page, raw_before, notified,
                   mode, running, scheduled, signalled>>

\* schedule.run_pending(); time.sleep(10): the scheduled check is due and
\* _perform_check_and_reschedule calls perform_smart_check, or it is not
RunPending ==
    /\ pc = "pending"
    /\ \E due \in BOOLEAN :
           pc' = IF due /\ scheduled /\ Len(monitoring_runs) < MaxRuns
                 THEN "idle" ELSE "wait"
    /\ UNCHANGED <<properties, monitoring_runs, now, stats, new_properties,
                   events, requests, email_enabled, reports, deleted, raising,
                   failed_at, price_digest, credentials, smtp, attempts,
                   email_ok, result, before, runs_before, outcome, batch,
                   marked_ids, first_stored, raw_page, raw_before, notified,
                   mode, running, scheduled, signalled, exit_code>>

\* SmartYad2Monitor._signal_handler, installed by __init__: it runs in the
\* main thread between two bytecodes of whatever the process is doing
Signal ==
    /\ mode \in SmartModes
    /\ pc # "exited"
    /\ running' = FALSE
    /\ signalled' = TRUE
    /\ UNCHANGED <<properties, monitoring_runs, now, pc, stats,
                   new_properties, events, requests, email_enabled, reports,
                   deleted, raising, failed_at, price_digest, credentials,
                   smtp, attempts, email_ok, result, before, runs_before,
                   outcome, batch, marked_ids, first_stored, raw_page,
                   raw_before, notified, mode, scheduled, exit_code>>

NextRun ==
    \/ Start
    \/ SmartCheck
    \/ SaveRaises
    \/ AdvancedRun
    \/ GetNew
    \/ SendNew
    \/ MarkNotified
    \/ SendPriceChange
    \/ SendRemoved
    \/ ReturnSingle
    \/ ReturnContinuous
    \/ LoopTest
    \/ RunPending
    \/ Signal

SpecRun == Init /\ [][NextRun]_vars

\* ------------------------------------ the notifier driven by any change sets
\* the most removed rows one cycle reports
MaxRemoved == 6

\* what a cycle may hand to the notifier of one identity: nothing, a
\* priced row, a row without price
NewKinds == {Absent} \cup {NoPrice, 1}
\* new_properties: a row for each identity handed on
NewRows(kinds) ==
    LET shown == SelectSeq(IdOrder, LAMBDA id : kinds[id] # Absent)
    IN  [i \in 1 .. Len(shown) |->
            [id |-> shown[i], price |-> kinds[shown[i]], first_seen |-> now]]

\* stats['price_changes']: per identity no change, a drop or a rise
ChangeKinds == {"none", "drop", "rise"}
PriceChanges(kinds) ==
    LET changed == SelectSeq(IdOrder, LAMBDA id : kinds[id] # "none")
    IN  [i \in 1 .. Len(changed) |->
            IF kinds[changed[i]] = "drop"
            THEN PriceChange(changed[i], MaxPrice, 1)
            ELSE PriceChange(changed[i], 1, MaxPrice)]

\* stats['removed_properties']: any number of rows, priced or not
RemovedRows(count, price) == {[id |-> i, price |-> price] : i \in 1 .. count}

\* perform_smart_check once fetch_and_store_properties has returned the
\* stats and get_new_properties_for_notification the new rows
DrawChanges ==
    /\ pc = "idle"
    /\ \E new \in [Ids -> NewKinds], changes \in [Ids -> ChangeKinds],
          count \in 0 .. MaxRemoved, price \in {NoPrice, 1} :
           /\ new_properties' = NewRows(new)
           /\ stats' = [NoStats EXCEPT
                           !.price_changes = PriceChanges(changes),
                           !.removed_properties = RemovedRows(count, price)]
           /\ pc' = AfterGetNew(NewRows(new))
    /\ events' = <<>>
    /\ result' = "running"
    /\ outcome' = "ok"
    /\ email_ok' = FALSE
    /\ UNCHANGED <<properties, monitoring_runs, now, requests, email_enabled,
                   reports, deleted, raising, failed_at, price_digest,
                   credentials, smtp, attempts, before, runs_before, batch,
                   marked_ids, first_stored, raw_page, raw_before, notified,
                   mode, running, scheduled, signalled, exit_code>>

NextNotify ==
    \/ DrawChanges
    \/ SendNew
    \/ MarkNotified
    \/ SendPriceChange
    \/ SendRemoved
    \/ Return

SpecNotify == Init /\ [][NextNotify]_vars

\* ---------------------------------------------- NotificationManager.send_email
\* the most recipients the comma-separated list names
MaxRecipients == 3

\* the SMTP session of one recipient: the message is sent, or connect,
\* starttls, login or send_message raises
Deliveries == {"sent", "refused", "unreachable"}
RecipientLists == UNION {[1 .. n -> Deliveries] : n \in 1 .. MaxRecipients}

\* (a loop that gives up at the first recipient that fails)
RECURSIVE SendToEach_StopAtFailure(_, _, _)
SendToEach_StopAtFailure(sessions, i, sofar) ==
    IF i > Len(sessions) THEN sofar
    ELSE IF sessions[i] = "sent"
         THEN SendToEach_StopAtFailure(sessions, i + 1,
                  [attempts |-> Append(sofar.attempts, i),
                   success_count |-> sofar.success_count + 1])
         ELSE [sofar EXCEPT !.attempts = Append(sofar.attempts, i)]

\* "for recipient_email in recipient_emails:" from recipient i on: the
\* session runs inside try/except, a success adds one to success_count
RECURSIVE SendToEach(_, _, _)
SendToEach(sessions, i, sofar) ==
    IF i > Len(sessions) THEN sofar
    ELSE SendToEach(sessions, i + 1,
             [attempts |-> Append(sofar.attempts, i),
              success_count |-> IF sessions[i] = "sent"
                                THEN sofar.success_count + 1
                                ELSE sofar.success_count])

\* NotificationManager.send_email: the recipients tried and the value returned
send_email(configured, sessions) ==
    IF ~configured THEN [attempts |-> <<>>, ok |-> FALSE]
    ELSE LET sent == SendToEach(sessions, 1,
                                [attempts |-> <<>>, success_count |-> 0])
         IN  [attempts |-> sent.attempts, ok |-> sent.success_count > 0]

SendEmail ==
    /\ pc = "idle"
    /\ \E configured \in BOOLEAN, sessions \in RecipientLists :
           /\ credentials' = configured
           /\ smtp' = sessions
           /\ attempts' = send_email(configured, sessions).attempts
           /\ email_ok' = send_email(configured, sessions).ok
    /\ events' = <<"send_email">>
    /\ pc' = "return"
    /\ UNCHANGED <<properties, monitoring_runs, now, stats, new_properties,
                   requests, email_enabled, reports, deleted, raising,
                   failed_at, price_digest, result, before, runs_before,
                   outcome, batch, marked_ids, first_stored, raw_page,
                   raw_before, notified, mode, running, scheduled, signalled,
                   exit_code>>

NextEmail ==
    \/ SendEmail
    \/ Return

SpecEmail == Init /\ [][NextEmail]_vars

\* ------------------------------------------------------ the store raising
\* the writes fetch_and_store_properties makes, each of which may raise
\* sqlite3.Error: save_properties, log_monitoring_run(success=True),
\* remove_sold_properties(hours=24) and log_monitoring_run(success=False)
StoreCalls ==
    {"save_properties", "log_success", "remove_sold_properties",
     "log_failure"}

\* (a connection that commits statement by statement)
RolledBack_Autocommit(tbl, partial) == partial

\* "with sqlite3.connect(self.db_path) as conn:" left by an exception: the
\* transaction is rolled back
RolledBack(tbl, partial) == tbl

\* save_properties when its k+1st listing raises: the last_seen refresh of
\* the absent rows and the first k listings are written
SavePartial(tbl, props, k, t) ==
    UpsertAll([tbl |-> TouchRemoved(tbl, props, t), new |-> 0,
               updated |-> 0, price_changes |-> <<>>],
              SubSeq(props, 1, k), 1, t).tbl

\* "# Log failed run" after the except clauses, outside the try: the row is
\* appended and (False, ...) returned, or the exception leaves the call
LogFailedRun(tbl, runs, calls, done) ==
    IF "log_failure" \in calls
    THEN [tbl |-> tbl, runs |-> runs, stats |-> NoStats, events |-> done,
          result |-> "raised"]
    ELSE [tbl |-> tbl, runs |-> log_monitoring_run(runs, FALSE),
          stats |-> NoStats, events |-> Append(done, "log_monitoring_run"),
          result |-> "False"]

\* the body of "if properties:" when the store calls in calls raise: each
\* exception is caught by "except Exception" and goes on to the failed-run
\* log; what was committed before it stays committed
fetch_and_store_properties(tbl, runs, props, t, calls, k) ==
    IF "save_properties" \in calls
    THEN LogFailedRun(RolledBack(tbl, SavePartial(tbl, props, k, t)), runs,
                      calls, <<>>)
    ELSE LET saved == save_properties(tbl, props, t)
         IN  IF "log_success" \in calls
             THEN LogFailedRun(saved.tbl, runs, calls, <<"save_properties">>)
             ELSE LET logged == log_monitoring_run(runs, TRUE)
                      done == <<"save_properties", "log_monitoring_run">>
                  IN  IF "remove_sold_properties" \in calls
                      THEN LogFailedRun(saved.tbl, logged, calls, done)
                      ELSE LET sold == remove_sold_properties(saved.tbl, t,
                                                              SoldHours)
                           IN  [tbl |-> sold.tbl, runs |-> logged,
                                stats |-> MergeRemoved(saved.stats,
                                                       sold.removed),
                                events |-> Append(done,
                                                  "remove_sold_properties"),
                                result |-> "True"]

\* one call of fetch_and_store_properties whose store calls may raise; result
\* is what the call returns ("raised" when the exception leaves it).
\* perform_smart_check returns False for "False" and for "raised".  raising
\* names the calls that raise: the first store call that raises ends the
\* try block, so one of the three calls inside it and, after it, the
\* failed-run log.  A call starts while the log has room for the two rows
\* it may append
FetchUnderFaults ==
    /\ pc = "idle"
    /\ Len(monitoring_runs) + 2 <= MaxRuns
    /\ before' = properties
    /\ runs_before' = monitoring_runs
    /\ new_properties' = <<>>
    /\ email_ok' = FALSE
    /\ \E calls \in SUBSET StoreCalls :
          /\ raising' = calls
          /\ \/ \E failure \in FetchFailures :
                    LET r == LogFailedRun(properties, monitoring_runs, calls,
                                          <<>>)
                    IN  /\ calls \subseteq {"log_failure"}
                        /\ outcome' = failure
                        /\ batch' = <<>>
                        /\ failed_at' = 0
                        /\ requests' = IF failure = "no_url" THEN 0 ELSE 1
                        /\ properties' = r.tbl
                        /\ monitoring_runs' = r.runs
                        /\ stats' = r.stats
                        /\ events' = r.events
                        /\ result' = r.result
             \/ \E feed \in Feeds, k \in 0 .. MaxBatch :
                    LET props == FormatFeed(feed)
                        r == fetch_and_store_properties(
                                 properties, monitoring_runs, props, now,
                                 calls, k)
                    IN  /\ Cardinality(calls \ {"log_failure"}) <= 1
                        /\ calls # {"log_failure"}
                        /\ k < Len(props) \/ k = 0
                        /\ k > 0 => "save_properties" \in calls
                        /\ outcome' = "ok"
                        /\ batch' = props
                        /\ failed_at' = k
                        /\ requests' = 1
                        /\ properties' = r.tbl
                        /\ monitoring_runs' = r.runs
                        /\ stats' = r.stats
                        /\ events' = r.events
                        /\ result' = r.result
    /\ pc' = "return"
    /\ UNCHANGED <<now, email_enabled, reports, deleted, price_digest,
                   credentials, smtp, attempts, mode, running, scheduled,
                   signalled, exit_code, raw_page, raw_before, marked_ids,
                   first_stored, notified>>

\* (the clock stands still between the calls of this specification)
NextFault ==
    \/ FetchUnderFaults
    \/ Return

SpecFault == Init /\ [][NextFault]_vars


\* ------------------------------------------------- the staleness sweep
\* self.db.cleanup_old_properties(days=14), as the advanced and the GitHub
\* monitor call it at the start of a cycle
sweep_stale(tbl, t) == cleanup_old_properties(tbl, t, AdvancedCleanupDays)

\* a sweep of the store
Sweep ==
    /\ pc = "idle"
    /\ LET swept == sweep_stale(properties, now)
       IN  /\ properties' = swept.tbl
           /\ deleted' = <<swept.deleted>>
    /\ before' = properties
    /\ events' = <<"cleanup_old_properties">>
    /\ pc' = "swept"
    /\ UNCHANGED <<monitoring_runs, now, stats, new_properties, requests,
                   email_enabled, reports, raising, failed_at, price_digest,
                   credentials, smtp, attempts, mode, running, scheduled,
                   signalled, exit_code, raw_page, raw_before, marked_ids,
                   first_stored, email_ok, result, runs_before, outcome,
                   batch, notified>>

\* the sweep run again, nothing having happened since the first
SweepAgain ==
    /\ pc = "swept"
    /\ LET swept == sweep_stale(properties, now)
       IN  /\ properties' = swept.tbl
           /\ deleted' = Append(deleted, swept.deleted)
    /\ before' = properties
    /\ events' = Append(events, "cleanup_old_properties")
    /\ pc' = "return"
    /\ UNCHANGED <<monitoring_runs, now, stats, new_properties, requests,
                   email_enabled, reports, raising, failed_at, price_digest,
                   credentials, smtp, attempts, mode, running, scheduled,
                   signalled, exit_code, raw_page, raw_before, marked_ids,
                   first_stored, email_ok, result, runs_before, outcome,
                   batch, notified>>

\* a fortnight passes without a run
Fortnight ==
    /\ pc = "idle"
    /\ now <= MaxDay
    /\ now' = now + AdvancedCleanupDays
    /\ UNCHANGED <<properties, monitoring_runs, pc, stats, new_properties,
                   events, requests, email_enabled, reports, deleted, raising,
                   failed_at, price_digest, credentials, smtp, attempts, mode,
                   running, scheduled, signalled, exit_code, raw_page,
                   raw_before, marked_ids, first_stored, email_ok, result,
                   before, runs_before, outcome, batch, notified>>

NextSweep ==
    \/ SaveListed
    \/ Sweep
    \/ SweepAgain
    \/ Return
    \/ Tick
    \/ Fortnight

SpecSweep == Init /\ [][NextSweep]_vars

\* ------------------------------------------------ removals reported
\* the identities of stats['removed_properties']
RemovedReported(st) == {r.id : r \in st.removed_properties}

\* the count of fetches in a row that reported an identity removed: it
\* starts again when a batch shows the identity, and stops at 2
Reporting(counts, props, st) ==
    [id \in Ids |->
        IF id \in CurrentPropertyIds(props) THEN 0
        ELSE IF id \in RemovedReported(st) /\ counts[id] < 2
        THEN counts[id] + 1
        ELSE counts[id]]

\* one call of fetch_and_store_properties on a page with listings: the
\* stats it returns are what perform_smart_check hands to
\* send_removed_properties_notification
FetchReporting ==
    /\ pc = "idle"
    /\ Len(monitoring_runs) < MaxRuns
    /\ \E feed \in Feeds :
           LET props == FormatFeed(feed)
               saved == save_properties(properties, props, now)
               sold == remove_sold_properties(saved.tbl, now, SoldHours)
               returned == MergeRemoved(saved.stats, sold.removed)
           IN  /\ props # <<>>
               /\ properties' = sold.tbl
               /\ stats' = returned
               /\ batch' = props
               /\ reports' = Reporting(reports, props, returned)
    /\ monitoring_runs' = log_monitoring_run(monitoring_runs, TRUE)
    /\ before' = properties
    /\ runs_before' = monitoring_runs
    /\ outcome' = "ok"
    /\ requests' = 1
    /\ events' = <<"save_properties", "log_monitoring_run",
                   "remove_sold_properties">>
    /\ result' = "True"
    /\ pc' = "return"
    /\ UNCHANGED <<now, new_properties, email_enabled, deleted, raising,
                   failed_at, price_digest, credentials, smtp, attempts, mode,
                   running, scheduled, signalled, exit_code, raw_page,
                   raw_before, marked_ids, first_stored, email_ok, notified>>

NextReport ==
    \/ FetchReporting
    \/ Return
    \/ Tick

SpecReport == Init /\ [][NextReport]_vars

\* ================================================================= claims
Last(s) == s[Len(s)]
NewDigest == "send_yad2_notification"
GetNewEvent == "get_new_properties_for_notification"
MarkEvent == "mark_properties_notified"
LaterDigests ==
    {"send_price_change_notification", "send_removed_properties_notification"}

\* C1: once mark_properties_notified has been called for an identity, that
\* identity is not returned by get_new_properties_for_notification again
\* unless a batch has shown it at another price in between.
C1_NoDuplicateNewAlerts ==
    (events # <<>> /\ Last(events) = GetNewEvent) =>
        \A i \in 1 .. Len(new_properties) :
            [id |-> new_properties[i].id, price |-> new_properties[i].price]
                \notin notified

\* C4: new properties are marked notified only when the new-listings digest
\* reached a recipient; when the digest was attempted and email is False
\* (delivery failed, or email is disabled) they stay is_notified = FALSE.
C4_MarkedOnlyAfterDelivery ==
    (NewDigest \in Range(events) /\ ~email_ok) =>
        \A i \in 1 .. Len(new_properties) :
            new_properties[i].id \in DOMAIN properties =>
                ~properties[new_properties[i].id].is_notified

\* C5 as stated: the removed set a cycle reports is exactly the set of stored
\* identities seen within the last day that are absent from the batch.
C5_RemovedAreRecentAbsent ==
    pc = "get_new" =>
        stats.removed_properties =
            {[id |-> id, price |-> before[id].price] :
                id \in {x \in DOMAIN before :
                           /\ before[x].last_seen >= now - 1
                           /\ \A i \in 1 .. Len(batch) : batch[i].id # x}}

\* C5 as amended: the removed set a cycle reports is the set of stored
\* identities absent from the batch whose last_seen is older than the
\* 24-hour window (the rows remove_sold_properties deletes) when there is
\* such a row, and otherwise the set of stored identities seen within the
\* last day that are absent from the batch.
C5_RemovedDetection ==
    pc = "get_new" =>
        LET absent == {x \in DOMAIN before :
                          \A i \in 1 .. Len(batch) : batch[i].id # x}
            stale == {x \in absent : before[x].last_seen < now - 1}
            recent == {x \in absent : before[x].last_seen >= now - 1}
            reported == IF stale # {} THEN stale ELSE recent
        IN  stats.removed_properties =
                {[id |-> x, price |-> before[x].price] : x \in reported}

\* a cycle after {A, B} was stored whose batch is {A} reports exactly {B}
C5_Witness ==
    /\ pc = "get_new"
    /\ DOMAIN before = {"A", "B"}
    /\ {batch[i].id : i \in 1 .. Len(batch)} = {"A"}
    /\ {r.id : r \in stats.removed_properties} = {"B"}

\* C6: when the fetch of a cycle fails (timeout, network error, 403/429,
\* other status, unparseable JSON, unexpected shape) the properties table is
\* as it was, one failed monitoring run has been recorded, and at most one
\* request was made.
C6_FailedFetchLeavesStateUntouched ==
    (pc = "return" /\ outcome \in {"timeout", "network", "http403", "http429",
                                   "http_error", "bad_json", "bad_shape"}) =>
        /\ properties = before
        /\ monitoring_runs = Append(runs_before, [success |-> FALSE])
        /\ requests <= 1

\* C7 as stated: save_properties precedes classification, every digest is
\* sent after classification, and no digest is attempted after
\* mark_properties_notified.
C7_MarkAfterAllNotifications ==
    \A i, j \in 1 .. Len(events) :
        i < j =>
            /\ events[j] = "save_properties" => events[i] # GetNewEvent
            /\ events[i] \in LaterDigests \cup {NewDigest} =>
                   events[j] # GetNewEvent
            /\ events[i] = MarkEvent =>
                   events[j] \notin LaterDigests \cup {NewDigest}

\* C7 as amended: save_properties precedes classification, every digest is
\* sent after classification, mark_properties_notified is called only after
\* the new-listings digest has been attempted, and the price-drop and
\* removed-listings digests are attempted after mark_properties_notified.
C7_StageOrder ==
    /\ \A i, j \in 1 .. Len(events) :
           i < j =>
               /\ events[j] = "save_properties" => events[i] # GetNewEvent
               /\ events[i] \in LaterDigests \cup {NewDigest} =>
                      events[j] # GetNewEvent
               /\ events[i] = MarkEvent => events[j] # NewDigest
               /\ events[i] \in LaterDigests => events[j] # MarkEvent
    /\ \A j \in 1 .. Len(events) :
           events[j] = MarkEvent =>
               \E i \in 1 .. j - 1 : events[i] = NewDigest

\* a cycle that marked new properties and then handled price changes
C7_Witness ==
    /\ pc = "return"
    /\ MarkEvent \in Range(events)
    /\ "send_price_change_notification" \in Range(events)
    /\ NewDigest \in Range(events)

\* C8: no call removes a row of the properties table: every identity stored
\* when a call began is still stored.
C8_NoRowDeleted == DOMAIN before \subseteq DOMAIN properties

\* C10: get_new_properties_for_notification returns exactly the rows with
\* is_notified = FALSE, each once, ordered by first_seen descending, and
\* leaves the properties table as it was.
C10_GetNewReturnsUnnotified ==
    [][pc = "get_new" =>
          /\ properties' = properties
          /\ {new_properties'[i].id : i \in 1 .. Len(new_properties')} =
                 {id \in DOMAIN properties : ~properties[id].is_notified}
          /\ \A i, j \in 1 .. Len(new_properties') :
                 /\ i < j => new_properties'[i].id # new_properties'[j].id
                 /\ i < j => new_properties'[i].first_seen
                                 >= new_properties'[j].first_seen
          /\ \A i \in 1 .. Len(new_properties') :
                 /\ new_properties'[i].first_seen =
                        properties[new_properties'[i].id].first_seen
                 /\ new_properties'[i].price =
                        properties[new_properties'[i].id].price]_vars

\* two unnotified rows first seen on different days have been returned,
\* while a notified row or none stays behind
C10_Witness ==
    /\ events # <<>>
    /\ Last(events) = GetNewEvent
    /\ Len(new_properties) = 2
    /\ new_properties[1].first_seen > new_properties[2].first_seen

\* ------------------------------------------ claims about save_properties
\* C2 as stated: for a stored identity with a non-zero price P1 that the
\* batch holds once, with price P2, price_changes holds exactly one entry
\* (P1, P2) for it when P2 differs from P1 and none when P2 equals P1.
C2_PriceChangeDetection ==
    pc = "return" =>
        \A id \in DOMAIN before :
            LET at == {i \in 1 .. Len(batch) : batch[i].id = id}
                entries == {k \in 1 .. Len(stats.price_changes) :
                               stats.price_changes[k].id = id}
                P1 == before[id].price
            IN  (P1 # NoPrice /\ P1 # 0 /\ Cardinality(at) = 1) =>
                    LET P2 == batch[CHOOSE i \in at : TRUE].price
                    IN  IF P2 # P1
                        THEN /\ Cardinality(entries) = 1
                             /\ \A k \in entries :
                                    /\ stats.price_changes[k].old_price = P1
                                    /\ stats.price_changes[k].new_price = P2
                        ELSE entries = {}

\* C2 as amended: ... exactly one entry (P1, P2) when P2 differs from P1 and
\* P2 is neither null nor zero, and none when P2 equals P1 or P2 is null or
\* zero.
C2_PriceChangeDetectionTruthy ==
    pc = "return" =>
        \A id \in DOMAIN before :
            LET at == {i \in 1 .. Len(batch) : batch[i].id = id}
                entries == {k \in 1 .. Len(stats.price_changes) :
                               stats.price_changes[k].id = id}
                P1 == before[id].price
            IN  (P1 # NoPrice /\ P1 # 0 /\ Cardinality(at) = 1) =>
                    LET P2 == batch[CHOOSE i \in at : TRUE].price
                    IN  IF P2 # P1 /\ P2 # NoPrice /\ P2 # 0
                        THEN /\ Cardinality(entries) = 1
                             /\ \A k \in entries :
                                    /\ stats.price_changes[k].old_price = P1
                                    /\ stats.price_changes[k].new_price = P2
                        ELSE entries = {}

\* a stored identity with a price was saved once at another price
C2_Witness ==
    /\ pc = "return"
    /\ \E id \in DOMAIN before :
           /\ before[id].price > 0
           /\ Len(batch) = 1
           /\ batch[1].id = id
           /\ batch[1].price > 0
           /\ batch[1].price # before[id].price
           /\ Len(stats.price_changes) = 1

\* C3 as stated: the entries of price_changes are, in batch order, exactly
\* the entries whose identity was stored when processed with a price that
\* is neither null nor zero and differs from the incoming price (the
\* incoming price may be null or zero).
C3_PriceChangeIff ==
    pc = "return" =>
        LET Earlier(i) == {j \in 1 .. i - 1 : batch[j].id = batch[i].id}
            Existed(i) == batch[i].id \in DOMAIN before \/ Earlier(i) # {}
            Max(S) == CHOOSE m \in S : \A n \in S : n <= m
            Prior(i) == IF Earlier(i) # {} THEN batch[Max(Earlier(i))].price
                        ELSE before[batch[i].id].price
            E == {i \in 1 .. Len(batch) :
                     /\ batch[i].id # NoId
                     /\ Existed(i)
                     /\ Prior(i) # NoPrice
                     /\ Prior(i) # 0
                     /\ batch[i].price # Prior(i)}
        IN  /\ Len(stats.price_changes) = Cardinality(E)
            /\ \A i \in E :
                   LET c == stats.price_changes[Cardinality({j \in E : j <= i})]
                   IN  /\ c.id = batch[i].id
                       /\ c.old_price = Prior(i)
                       /\ c.new_price = batch[i].price

\* C3 as amended: the entries of price_changes are, in batch order, exactly
\* the entries whose identity was stored when processed with a price that
\* is neither null nor zero, whose incoming price is neither null nor zero,
\* and whose incoming price differs from the stored one.
C3_PriceChangeIffBothTruthy ==
    pc = "return" =>
        LET Earlier(i) == {j \in 1 .. i - 1 : batch[j].id = batch[i].id}
            Existed(i) == batch[i].id \in DOMAIN before \/ Earlier(i) # {}
            Max(S) == CHOOSE m \in S : \A n \in S : n <= m
            Prior(i) == IF Earlier(i) # {} THEN batch[Max(Earlier(i))].price
                        ELSE before[batch[i].id].price
            E == {i \in 1 .. Len(batch) :
                     /\ batch[i].id # NoId
                     /\ Existed(i)
                     /\ Prior(i) # NoPrice
                     /\ Prior(i) # 0
                     /\ batch[i].price # NoPrice
                     /\ batch[i].price # 0
                     /\ batch[i].price # Prior(i)}
        IN  /\ Len(stats.price_changes) = Cardinality(E)
            /\ \A i \in E :
                   LET c == stats.price_changes[Cardinality({j \in E : j <= i})]
                   IN  /\ c.id = batch[i].id
                       /\ c.old_price = Prior(i)
                       /\ c.new_price = batch[i].price

\* a stored identity with a price was saved with a null or zero price, and
\* another one without a stored price was saved with a price: no entry
C3_Witness ==
    /\ pc = "return"
    /\ Len(batch) = 2
    /\ batch[1].id \in DOMAIN before
    /\ batch[2].id \in DOMAIN before
    /\ before[batch[1].id].price > 0
    /\ batch[1].price \in {NoPrice, 0}
    /\ before[batch[2].id].price \in {NoPrice, 0}
    /\ batch[2].price > 0
    /\ stats.price_changes = <<>>

\* C9: new counts the batch entries whose identity was absent from the store
\* when processed, updated those whose identity was present, and new +
\* updated is the number of entries with a non-empty identity; on an empty
\* store a batch of k distinct identities gives new = k, updated = 0, no
\* price change, and get_new_properties_for_notification returns all k.
C9_UpsertCounts ==
    pc = "return" =>
        LET named == {i \in 1 .. Len(batch) : batch[i].id # NoId}
            fresh == {i \in named :
                         /\ batch[i].id \notin DOMAIN before
                         /\ \A j \in 1 .. i - 1 : batch[j].id # batch[i].id}
            distinct == \A i, j \in 1 .. Len(batch) :
                            i # j => batch[i].id # batch[j].id
            pending == {id \in DOMAIN properties : ~properties[id].is_notified}
        IN  /\ stats.new = Cardinality(fresh)
            /\ stats.updated = Cardinality(named \ fresh)
            /\ stats.new + stats.updated = Cardinality(named)
            /\ (before = EmptyTable /\ distinct /\ Cardinality(named) = Len(batch)) =>
                   /\ stats.new = Len(batch)
                   /\ stats.updated = 0
                   /\ stats.price_changes = <<>>
                   /\ \A scan \in Scans(pending) :
                          LET rows == get_new_properties_for_notification(
                                          properties, scan)
                          IN  /\ Len(rows) = Len(batch)
                              /\ {rows[i].id : i \in 1 .. Len(rows)} =
                                     {batch[i].id : i \in 1 .. Len(batch)}

\* an empty store was handed two distinct identities
C9_Witness ==
    /\ pc = "return"
    /\ before = EmptyTable
    /\ Len(batch) = 2
    /\ batch[1].id # NoId
    /\ batch[2].id # NoId
    /\ batch[1].id # batch[2].id
    /\ stats.new = 2
    /\ DOMAIN properties = {batch[1].id, batch[2].id}

\* -------------------------------- claims about mark_properties_as_notified
\* C11: mark_properties_as_notified(ids) sets is_notified for exactly the
\* stored identities in ids: every other row keeps its is_notified value,
\* no other column of any row changes, and no row is created or removed.
C11_MarkFrame ==
    (pc = "return" /\ events = <<"mark_properties_as_notified">>) =>
        LET given == {marked_ids[i] : i \in 1 .. Len(marked_ids)}
        IN  /\ DOMAIN properties = DOMAIN before
            /\ \A id \in DOMAIN before :
                   /\ properties[id].price = before[id].price
                   /\ properties[id].first_seen = before[id].first_seen
                   /\ properties[id].last_seen = before[id].last_seen
                   /\ properties[id].is_notified =
                          IF id \in given THEN TRUE ELSE before[id].is_notified

\* the list held a stored unnotified identity and one the store lacks,
\* while another call had left a row notified
C11_Witness ==
    /\ pc = "return"
    /\ events = <<"mark_properties_as_notified">>
    /\ DOMAIN before = {"A"}
    /\ ~before["A"].is_notified
    /\ marked_ids = <<"B", "A">>
    /\ properties["A"].is_notified

\* a row outside the list stayed unnotified next to a row that was marked
C11_WitnessOther ==
    /\ pc = "return"
    /\ events = <<"mark_properties_as_notified">>
    /\ DOMAIN before = {"A", "B"}
    /\ marked_ids = <<"A">>
    /\ properties["A"].is_notified
    /\ ~properties["B"].is_notified

\* ----------------------------------------- claims about the two timestamps
\* C12: a call never moves the last_seen of a stored identity backwards,
\* and it moves it forward only for identities of the incoming batch.
C12_LastSeenForwardOnlyForBatch ==
    \A id \in DOMAIN before \cap DOMAIN properties :
        /\ properties[id].last_seen >= before[id].last_seen
        /\ properties[id].last_seen > before[id].last_seen =>
               \E i \in 1 .. Len(batch) : batch[i].id = id

\* C13: the first_seen an identity was given when it was first stored is
\* the first_seen its row carries ever after.
C13_FirstSeenImmutable ==
    \A id \in DOMAIN properties :
        id \in DOMAIN first_stored /\ properties[id].first_seen = first_stored[id]

\* ------------------------------------------ claims about the raw listings
\* a raw listing that has every required field
Complete(listing) == listing.price > 0 /\ listing.address = "text"

\* C14: of a page of raw listings, the listings lacking a required field
\* (identity, positive price, non-empty address) are dropped and every
\* other listing is stored.
C14_MalformedDropped ==
    (pc = "get_new" /\ before = EmptyTable /\ raw_before = NoPage) =>
        DOMAIN properties =
            {token \in Ids : token \in Listed(raw_page) /\ Complete(raw_page[token])}

\* C15: a raw listing and the same listing with another price, or another
\* value of any field but its identity source, are given the same identity,
\* so the re-observed listing is not inserted as new.
C15_IdentityStable ==
    /\ \A token \in Listed(raw_before) \cap Listed(raw_page) :
           format_property_for_database(token, raw_before[token]).id =
               format_property_for_database(token, raw_page[token]).id
    /\ (pc = "get_new" /\ raw_before # NoPage) => stats.new = 0

C17_LoopSurvivesCycleFailure ==
    (mode = "continuous" /\ pc = "exited") => (signalled \/ exit_code = 1)

\* a check failed, no signal came, and a later check is under way
C17_Witness ==
    /\ mode = "continuous"
    /\ ~signalled
    /\ scheduled
    /\ pc = "get_new"
    /\ \E i \in 1 .. Len(runs_before) : ~runs_before[i].success

\* C18: after a signal the handler has only cleared the running flag, and
\* the loop stops at its next test of the flag between two cycles.
C18_StopsAtNextCheck ==
    (mode = "continuous" /\ signalled /\ pc = "wait") => ~running

\* ------------------------------------------------ claims about the notifier
NotifierCalls ==
    {"send_yad2_notification", "send_price_change_notification",
     "send_removed_properties_notification"}

Count(e) == Cardinality({i \in 1 .. Len(events) : events[i] = e})

\* C19: in one cycle each notifier call is made at most once and mails at
\* most one digest, however many properties its change set holds.
C19_OneDigestPerCategory ==
    /\ \A call \in NotifierCalls : Count(call) <= 1
    /\ \A i \in 1 .. Len(events) :
           events[i] = "send_email" => (i > 1 /\ events[i - 1] \in NotifierCalls)

\* a cycle mailed all three digests, for two new rows, two price drops and
\* more removed rows than the threshold
C19_Witness ==
    /\ pc = "return"
    /\ Count("send_email") = Cardinality(NotifierCalls)
    /\ Len(new_properties) = Cardinality(Ids)
    /\ Len(PriceDrops(stats.price_changes)) = Cardinality(Ids)
    /\ Cardinality(stats.removed_properties) > RemovedThreshold

\* C20: send_email tries every recipient whatever happened to the ones
\* before, and returns True exactly when at least one delivery succeeded.
C20_RecipientIsolation ==
    (pc = "return" /\ events = <<"send_email">> /\ credentials) =>
        /\ Len(attempts) = Len(smtp)
        /\ \A i \in 1 .. Len(smtp) : attempts[i] = i
        /\ email_ok <=> \E i \in 1 .. Len(smtp) : smtp[i] = "sent"

\* the first recipient failed, a later one was still tried and received
\* the message, and a third failed again
C20_Witness ==
    /\ pc = "return"
    /\ events = <<"send_email">>
    /\ credentials
    /\ smtp = <<"refused", "sent", "unreachable">>
    /\ Len(attempts) = Len(smtp)
    /\ email_ok

\* -------------------------------------------- claims about the price digest
\* the price-change call of the cycle mailed a digest
PriceMailSent ==
    \E i \in 1 .. Len(events) - 1 :
        events[i] = "send_price_change_notification" /\ events[i + 1] = "send_email"

C21_WitnessRises ==
    /\ pc = "removed"
    /\ email_enabled
    /\ stats.price_changes # <<>>
    /\ \A i \in 1 .. Len(stats.price_changes) :
           stats.price_changes[i].new_price > stats.price_changes[i].old_price
    /\ ~PriceMailSent

\* -------------------------------------- claims about failures inside a cycle
\* C22: a cycle that saved its batch is reported successful whatever
\* happens to its notifications, a raising notifier included.
C22_DeliveryFailureNonFatal ==
    (pc = "return" /\ events # <<>> /\ events[1] = "save_properties") =>
        result = "True"

\* C23: when save_properties detects a price change for a row whose
\* is_notified is true the flag is false afterwards, and the flag of no other
\* row goes from true to false.
C23_NotifiedResetOnPriceChange ==
    (pc = "return" /\ events = <<"save_properties">>) =>
        LET changed == {stats.price_changes[i].id :
                           i \in 1 .. Len(stats.price_changes)}
        IN  \A id \in DOMAIN before \cap DOMAIN properties :
                before[id].is_notified =>
                    (properties[id].is_notified <=> id \notin changed)

\* C24: every call of fetch_and_store_properties appends exactly one row to
\* monitoring_runs, whose success flag is the success the call returns, and
\* leaves the rows that were there as they were
C24_AuditedExactlyOnce ==
    pc = "return" =>
        /\ Len(monitoring_runs) = Len(runs_before) + 1
        /\ SubSeq(monitoring_runs, 1, Len(runs_before)) = runs_before
        /\ Last(monitoring_runs).success = (result = "True")

\* C25: when save_properties raises partway through a batch, the properties
\* table is what it was before the call, and the call reports the failure:
\* it returns (False, ...) or raises, and perform_smart_check returns False
C25_SaveAtomic ==
    (pc = "return" /\ "save_properties" \in raising) =>
        /\ properties = before
        /\ result \in {"False", "raised"}

\* the exception came after rows had been written
C25_Witness ==
    /\ pc = "return"
    /\ "save_properties" \in raising
    /\ failed_at >= 1
    /\ SavePartial(before, batch, failed_at, now) # before
    /\ before # EmptyTable
    /\ properties = before
    /\ result = "False"

\* C26: when only log_monitoring_run raises, fetch_and_store_properties
\* returns what it returns when the log is written: success for a batch that
\* was saved, (False, ...) for a failed fetch, and never an exception
C26_AuditBestEffort ==
    (pc = "return" /\ raising # {}
        /\ raising \subseteq {"log_success", "log_failure"}) =>
        result = (IF outcome = "ok" THEN "True" ELSE "False")

\* C27: cleanup_old_properties(days=14) run twice in succession, with no
\* other operation and no clock advance in between, leaves the store after
\* the second run as it was after the first, and the second run returns 0
C27_SweepIdempotent ==
    (pc = "return" /\ Len(deleted) = 2) =>
        /\ properties = before
        /\ deleted[2] = 0

\* the first run deleted both rows of the store
C27_Witness ==
    /\ pc = "return"
    /\ Len(deleted) = 2
    /\ deleted[1] = 2
    /\ deleted[2] = 0

\* the first run deleted one row and kept the other
C27_WitnessKept ==
    /\ pc = "return"
    /\ Len(deleted) = 2
    /\ deleted[1] = 1
    /\ properties # EmptyTable
    /\ properties = before

\* C28: an identity that one fetch reported removed, its listing absent from
\* the batch, is not reported removed again by the following fetches whose
\* batches lack it too
C28_RemovalReportedOnce == \A id \in Ids : reports[id] <= 1

\* C29: once SIGINT or SIGTERM has been delivered to a monitor, the running
\* flag is never true again
C29_NoSignalLost == signalled => ~running

\* C30: while the loop of the continuous mode runs, between two checks, a
\* next check is scheduled
C30_CheckAlwaysScheduled ==
    (mode = "continuous" /\ pc \in {"wait", "pending"} /\ running) =>
        scheduled

====
